---- MODULE Spec2Model ----
(***************************************************************************)
(* A model of the garble crate: values that can be garbled (trait Garble), *)
(* strategies that perturb leaves (trait Garbler, with SimpleGarbler, the  *)
(* tests' PassGarbler and ZeroGarbler, and an arbitrary implementation),   *)
(* the composite implementations of impls.rs, the opt-out wrapper NoGarble *)
(* and the expansion of #[derive(Garble)].                                 *)
(*                                                                         *)
(* A value is a record with a type tag t and a payload v.  One garble call *)
(* is one action: it draws the value and the answers of the random number  *)
(* generator (the tape), evaluates the recursive operator Garble, and      *)
(* leaves the result in output, the strategy's call log in garbler.calls   *)
(* and the way the call ended in status.                                   *)
(***************************************************************************)
EXTENDS Integers, Sequences, FiniteSets, TLC

VARIABLES
    garbler,         \* the strategy: [kind, rate, calls, rng]
    input,           \* the value handed to the last garble call, or the item handed to the derive
    output,          \* what that call returned (Nil before, and on a panic), or the impl derived
    status,          \* "ready" | "done" | "panic_overflow" | "panic_rate" | "panic_unwrap"
    overflowChecks,  \* the build profile: TRUE = debug (overflow panics), FALSE = release (wraps)
    hashSeed,        \* the order the hashed containers of the last call iterate in
    answers          \* what the random number generator answered during the last call

vars == <<garbler, input, output, status, overflowChecks, hashSeed, answers>>

\* Longest sequence, set, map, string and field list the model draws.
MaxLen == 2

Nil == [t |-> "nil", v |-> 0]
Val(t, v) == [t |-> t, v |-> v]

RECURSIVE Pow2(_)
Pow2(n) == IF n = 0 THEN 1 ELSE 2 * Pow2(n - 1)

RECURSIVE SeqsUpTo(_, _)
\* Every sequence over S of length 0..n.
SeqsUpTo(S, n) ==
    IF n = 0 THEN {<<>>}
    ELSE LET shorter == SeqsUpTo(S, n - 1)
         IN shorter \cup {Append(q, x) : q \in {r \in shorter : Len(r) = n - 1}, x \in S}

Range(q) == {q[i] : i \in DOMAIN q}

-----------------------------------------------------------------------------
(* Leaf types.  The integer methods are one macro instantiated per width;  *)
(* u8, u16 and i8 stand for the unsigned and signed widths.                *)

IntTypes == {"u8", "u16", "i8"}
StrTypes == {"string", "str"}
PrimTypes == IntTypes \cup {"bool", "char", "f32"} \cup StrTypes

Bits(t) == CASE t = "u8" -> 8 [] t = "i8" -> 8 [] t = "u16" -> 16
IsSigned(t) == t = "i8"
MinOf(t) == IF IsSigned(t) THEN 0 - Pow2(Bits(t) - 1) ELSE 0
MaxOf(t) == IF IsSigned(t) THEN Pow2(Bits(t) - 1) - 1 ELSE Pow2(Bits(t)) - 1

\* char: Unicode scalar values, 0..0x10FFFF without the surrogates 0xD800..0xDFFF.
CharMax == 1114111
SurrogateLo == 55296
SurrogateHi == 57343
CharG == 103
CharSpace == 32
IsScalar(n) == n >= 0 /\ n <= CharMax /\ ~(n >= SurrogateLo /\ n <= SurrogateHi)

\* f32: m * 2^e with m odd, or zero; FInf is +infinity.
F32(m, e) == [m |-> m, e |-> e]
FZero == F32(0, 0)
FHalf == F32(1, 0 - 1)
FMax == F32(16777215, 104)
FMin == F32(0 - 16777215, 104)
FInf == [m |-> 1, e |-> 1000]
Abs(n) == IF n < 0 THEN 0 - n ELSE n
RECURSIVE Log2(_)
Log2(n) == IF n <= 1 THEN 0 ELSE 1 + Log2(n \div 2)
\* v.powf(2.0); exact whenever the square's mantissa fits the 24 bits of an f32.
FSquare(x) ==
    IF x.m = 0 \/ x = FInf THEN x
    ELSE IF 2 * (x.e + Log2(Abs(x.m))) >= 128 THEN FInf
    ELSE F32(x.m * x.m, 2 * x.e)

\* The values of each leaf type the model draws as inputs and as the returns of
\* an arbitrary strategy: the extremes, zero and a value in between.
Samples(t) ==
    CASE t = "u8" -> <<0, 1, 63, 255>>
      [] t = "i8" -> <<0 - 128, 0 - 1, 0, 127>>
      [] t = "u16" -> <<0, 1, 255, 65535>>
      [] t = "bool" -> <<FALSE, TRUE>>
      [] t = "char" -> <<97, CharG, SurrogateLo - 1, CharMax>>
      [] t = "f32" -> <<FZero, FHalf, FMax, FMin>>
      [] t \in StrTypes -> <<<<>>, <<97>>, <<CharG, 97>>, <<97, CharG>>>>
\* What rng.gen() can return for a type: any value of an integer or char type,
\* a float in [0, 1).
GenSamples(t) ==
    IF t = "f32" THEN <<FZero, F32(1, 0 - 2), FHalf, F32(3, 0 - 2)>> ELSE Samples(t)
\* The uniform word gen_bool compares with its probability, in percent.
Coins == {0, 99}

Chars == Range(Samples("char"))
Strings == SeqsUpTo(Chars, MaxLen)
LeafValues(t) == IF t \in StrTypes THEN Strings ELSE Range(Samples(t))
Leaves == {Val(t, x) : t \in {"bool"}, x \in BOOLEAN}
            \cup UNION {{Val(t, x) : x \in LeafValues(t)} : t \in PrimTypes \ {"bool"}}

-----------------------------------------------------------------------------
(* Strategies.  The threaded state s of one garble call: the call log, the *)
(* number of random draws made, the tape of answers still to come and how  *)
(* the call stands ("ok" or the panic that ended it).                      *)

\* SimpleGarbler's rate in percent: 0.0, 0.5, 1.0 and the tests' 100.0.
Rates == {0, 50, 100, 10000}
Kinds == {"SimpleGarbler", "PassGarbler", "ZeroGarbler", "AnyGarbler"}

\* SimpleGarbler::new(rate): no validation.
SimpleGarblerNew(rate) == [kind |-> "SimpleGarbler", rate |-> rate, calls |-> <<>>, rng |-> 0]
OtherGarbler(kind) == [kind |-> kind, rate |-> 0, calls |-> <<>>, rng |-> 0]
Garblers == {SimpleGarblerNew(r) : r \in Rates}
              \cup {OtherGarbler(k) : k \in Kinds \ {"SimpleGarbler"}}

Panic(s, why) == [s EXCEPT !.st = why]
Logged(s, m, arg, ret, ok) ==
    [s EXCEPT !.calls = Append(@, [m |-> m, arg |-> arg, ret |-> ret, ok |-> ok])]
\* The next answer; past the answers the call was given, the generator repeats
\* one word.
Answer(s) == IF s.tape = <<>> THEN [u |-> 0, i |-> 1] ELSE Head(s.tape)
Consumed(s, n) == [s EXCEPT !.tape = IF @ = <<>> THEN @ ELSE Tail(@), !.rng = @ + n]
\* The i-th of the values a draw can give.
Draw(samples, i) == samples[((i - 1) % Len(samples)) + 1]

\* gen_bool with the comparison off by one: a coin equal to the rate hits.
ShouldGarbleLe(g, s) ==
    IF g.rate < 0 \/ g.rate > 100 THEN [panic |-> TRUE, hit |-> FALSE]
    ELSE [panic |-> FALSE, hit |-> Answer(s).u <= g.rate]
\* rng.gen_bool(p): panics unless 0 <= p <= 1, else TRUE with probability p.
ShouldGarble(g, s) ==
    IF g.rate < 0 \/ g.rate > 100 THEN [panic |-> TRUE, hit |-> FALSE]
    ELSE [panic |-> FALSE, hit |-> Answer(s).u < g.rate]

\* The closures of impl_func: the substitute when the draw equals the value.
PlusOne(t, v) ==
    IF v = MaxOf(t)
    THEN IF overflowChecks THEN [panic |-> TRUE, v |-> v] ELSE [panic |-> FALSE, v |-> MinOf(t)]
    ELSE [panic |-> FALSE, v |-> v + 1]
\* The next code point taken as a char without the check of from_u32.
NextCharUnchecked(c) == [panic |-> FALSE, v |-> c + 1]
NextChar(c) == [panic |-> FALSE, v |-> IF IsScalar(c + 1) THEN c + 1 ELSE CharG]
Substitute(t, v) ==
    CASE t \in IntTypes -> PlusOne(t, v)
      [] t = "char" -> NextChar(v)
      [] t = "f32" -> [panic |-> FALSE, v |-> FSquare(v)]

\* SimpleGarbler's garble_<t> for char, the integers and the floats.
SimpleNumeric(g, t, value, s) ==
    LET sg == ShouldGarble(g, s)
        draw == Draw(GenSamples(t), Answer(s).i)
        sub == Substitute(t, value)
    IN IF sg.panic THEN [ret |-> value, s |-> Panic(Logged(s, t, value, value, FALSE), "panic_rate")]
       ELSE IF ~sg.hit THEN [ret |-> value, s |-> Logged(Consumed(s, 1), t, value, value, TRUE)]
       ELSE IF draw # value THEN [ret |-> draw, s |-> Logged(Consumed(s, 2), t, value, draw, TRUE)]
       ELSE IF sub.panic
            THEN [ret |-> value,
                  s |-> Panic(Logged(Consumed(s, 2), t, value, value, FALSE), "panic_overflow")]
       ELSE [ret |-> sub.v, s |-> Logged(Consumed(s, 2), t, value, sub.v, TRUE)]

\* SimpleGarbler::garble_bool.
SimpleBool(g, value, s) ==
    LET sg == ShouldGarble(g, s)
        ret == sg.hit # value
    IN IF sg.panic
       THEN [ret |-> value, s |-> Panic(Logged(s, "bool", value, value, FALSE), "panic_rate")]
       ELSE [ret |-> ret, s |-> Logged(Consumed(s, 1), "bool", value, ret, TRUE)]

RECURSIVE SimpleChars(_, _, _, _)
\* The map over value.chars() of SimpleGarbler::garble_str.
SimpleChars(g, cs, s, acc) ==
    IF cs = <<>> THEN [ret |-> acc, s |-> s]
    ELSE LET sg == ShouldGarble(g, s)
             c == Head(cs)
         IN IF sg.panic THEN [ret |-> acc, s |-> Panic(s, "panic_rate")]
            ELSE IF sg.hit
                 THEN SimpleChars(g, Tail(cs), Consumed(s, 2),
                                  Append(acc, Draw(GenSamples("char"), Answer(s).i)))
            ELSE SimpleChars(g, Tail(cs), Consumed(s, 1), Append(acc, c))

\* A garble_str that decides once for the whole string.
SimpleStrOnce(g, value, s) ==
    LET sg == ShouldGarble(g, s)
        r == IF sg.hit THEN SimpleChars(g, value, s, <<>>) ELSE [ret |-> value, s |-> Consumed(s, 1)]
    IN IF sg.panic \/ r.s.st # "ok"
       THEN [ret |-> value, s |-> Panic(Logged(r.s, "str", value, value, FALSE), "panic_rate")]
       ELSE [ret |-> r.ret, s |-> Logged(r.s, "str", value, r.ret, TRUE)]
\* SimpleGarbler::garble_str.
SimpleStr(g, value, s) ==
    LET r == SimpleChars(g, value, s, <<>>)
    IN IF r.s.st # "ok" THEN [ret |-> value, s |-> Logged(r.s, "str", value, value, FALSE)]
       ELSE [ret |-> r.ret, s |-> Logged(r.s, "str", value, r.ret, TRUE)]

\* PassGarbler: every method returns its argument.
PassMethod(m, value, s) == [ret |-> value, s |-> Logged(s, m, value, value, TRUE)]

\* ZeroGarbler: every method returns the zero of its type.
ZeroOf(m) ==
    CASE m \in IntTypes -> 0
      [] m = "bool" -> FALSE
      [] m = "char" -> CharSpace
      [] m = "f32" -> FZero
      [] m = "str" -> <<>>
ZeroMethod(m, value, s) == [ret |-> ZeroOf(m), s |-> Logged(s, m, value, ZeroOf(m), TRUE)]

\* Any other implementation of the trait: a method returns some value of its type.
AnyMethod(m, value, s) ==
    LET ret == Draw(Samples(IF m = "str" THEN "string" ELSE m), Answer(s).i)
    IN [ret |-> ret, s |-> Logged(Consumed(s, 0), m, value, ret, TRUE)]

\* garbler.garble_<m>(value): the dispatch on the strategy's type.
Method(g, m, value, s) ==
    CASE g.kind = "PassGarbler" -> PassMethod(m, value, s)
      [] g.kind = "ZeroGarbler" -> ZeroMethod(m, value, s)
      [] g.kind = "AnyGarbler" -> AnyMethod(m, value, s)
      [] g.kind = "SimpleGarbler" ->
            CASE m = "bool" -> SimpleBool(g, value, s)
              [] m = "str" -> SimpleStr(g, value, s)
              [] OTHER -> SimpleNumeric(g, m, value, s)

\* The method a leaf type forwards to: String and &str both use garble_str.
MethodOf(t) == IF t \in StrTypes THEN "str" ELSE t
\* The type of the leaf's output: &str garbles to an owned String.
OutType(t) == IF t = "str" THEN "string" ELSE t

-----------------------------------------------------------------------------
(* impl Garble for ...                                                      *)

\* impl_garble_primitive: forward the leaf to the strategy's method.
GarblePrimitive(g, v, s) ==
    LET r == Method(g, MethodOf(v.t), v.v, s)
    IN IF r.s.st # "ok" THEN [out |-> Nil, s |-> r.s]
       ELSE [out |-> Val(OutType(v.t), r.ret), s |-> r.s]

\* NoGarble garbling its payload: self.0.garble(garbler).
GarbleNoGarbleInner(g, v, s) == GarblePrimitive(g, v.v, s)
\* impl Garble for NoGarble<T>: self.0, the strategy untouched.
GarbleNoGarble(g, v, s) == [out |-> v.v, s |-> s]

\* The match without its 0 arm.
NonZeroArmNone(n) == n
\* The arms of impl_garble_nonzero's match: 0 => 1, n => n.
NonZeroArm(n) == IF n = 0 THEN 1 ELSE n
\* NonZero::new(n): None for zero.
NonZeroNew(n) == [some |-> n # 0, n |-> n]

\* impl_garble_nonzero: garble s.get() and rebuild the wrapper; unwrap panics on None.
GarbleNonZero(g, v, s) ==
    LET r == Method(g, v.v.p, v.v.n, s)
        nz == NonZeroNew(NonZeroArm(r.ret))
    IN IF r.s.st # "ok" THEN [out |-> Nil, s |-> r.s]
       ELSE IF ~nz.some THEN [out |-> Nil, s |-> Panic(r.s, "panic_unwrap")]
       ELSE [out |-> Val("nonzero", [p |-> v.v.p, n |-> nz.n]), s |-> r.s]

\* impl_garble_atomic: $atomic::new(g.garble_<primitive>(s.into_inner())).
GarbleAtomic(g, v, s) ==
    LET r == Method(g, v.v[1], v.v[2], s)
    IN IF r.s.st # "ok" THEN [out |-> Nil, s |-> r.s]
       ELSE [out |-> Val("atomic", <<v.v[1], r.ret>>), s |-> r.s]

\* The arms of the CString closure's match: 0 => 0x3F, b => b.
QuestionMark == 63
\* The match without its 0 arm.
NulArmNone(b) == b
NulArm(b) == IF b = 0 THEN QuestionMark ELSE b
\* CString::new(bytes): an error when a byte is nul.
CStringNew(bytes) == [ok |-> \A i \in DOMAIN bytes : bytes[i] # 0, bytes |-> bytes]

RECURSIVE Garble(_, _, _)
RECURSIVE GarbleIter(_, _, _, _)

\* iter.map(|v| v.garble(g)): the elements in order through the same strategy;
\* a panic ends the iteration.
GarbleIter(g, elems, s, acc) ==
    IF elems = <<>> THEN [out |-> acc, s |-> s]
    ELSE LET r == Garble(g, Head(elems), s)
         IN IF r.s.st # "ok" THEN [out |-> acc, s |-> r.s]
            ELSE GarbleIter(g, Tail(elems), r.s, Append(acc, r.out))

\* impl Garble for &T: clone, then garble the clone.
GarbleRef(g, v, s) == Garble(g, v.v, s)

\* impl Garble for CString: every byte of to_bytes() as a &u8, nul replaced,
\* then CString::new(bytes).unwrap().
GarbleCString(g, v, s) ==
    LET r == GarbleIter(g, [i \in DOMAIN v.v |-> Val("ref", Val("u8", v.v[i]))], s, <<>>)
        c == CStringNew([i \in DOMAIN r.out |-> NulArm(r.out[i].v)])
    IN IF r.s.st # "ok" THEN [out |-> Nil, s |-> r.s]
       ELSE IF ~c.ok THEN [out |-> Nil, s |-> Panic(r.s, "panic_unwrap")]
       ELSE [out |-> Val("cstring", c.bytes), s |-> r.s]

\* impl Garble for Option<T>: s.map(|v| v.garble(g)).
GarbleOption(g, v, s) ==
    LET r == GarbleIter(g, v.v, s, <<>>)
    IN IF r.s.st # "ok" THEN [out |-> Nil, s |-> r.s]
       ELSE [out |-> Val("option", r.out), s |-> r.s]

\* A Result that garbles either side into Ok.
GarbleResultOk(g, v, s) ==
    LET r == Garble(g, v.v, s)
    IN IF r.s.st # "ok" THEN [out |-> Nil, s |-> r.s]
       ELSE [out |-> Val("ok", r.out), s |-> r.s]
\* impl Garble for Result<T, E>: Ok(v) => Ok(v.garble(g)), Err(e) => Err(e.garble(g)).
GarbleResult(g, v, s) ==
    LET r == Garble(g, v.v, s)
    IN IF r.s.st # "ok" THEN [out |-> Nil, s |-> r.s]
       ELSE [out |-> Val(v.t, r.out), s |-> r.s]

SeqTypes == {"vec", "vecdeque", "linkedlist"}

Reverse(q) == [i \in DOMAIN q |-> q[Len(q) + 1 - i]]
\* The sequence iterated from its back: s.into_iter().rev().
GarbleSequenceRev(g, v, s) ==
    LET r == GarbleIter(g, Reverse(v.v), s, <<>>)
    IN IF r.s.st # "ok" THEN [out |-> Nil, s |-> r.s]
       ELSE [out |-> Val(v.t, r.out), s |-> r.s]
\* impl_garble_sequence: s.into_iter().map(|v| v.garble(g)).collect().
GarbleSequence(g, v, s) ==
    LET r == GarbleIter(g, v.v, s, <<>>)
    IN IF r.s.st # "ok" THEN [out |-> Nil, s |-> r.s]
       ELSE [out |-> Val(v.t, r.out), s |-> r.s]

\* impl Garble for [T; N]: self.map(|v| v.garble(garbler)), in index order.
GarbleArray(g, v, s) ==
    LET r == GarbleIter(g, v.v, s, <<>>)
    IN IF r.s.st # "ok" THEN [out |-> Nil, s |-> r.s]
       ELSE [out |-> Val("array", r.out), s |-> r.s]

\* A tuple whose operands are evaluated from the last to the first.
GarbleTupleRev(g, v, s) ==
    LET r == GarbleIter(g, Reverse(v.v), s, <<>>)
    IN IF r.s.st # "ok" THEN [out |-> Nil, s |-> r.s]
       ELSE [out |-> Val("tuple", Reverse(r.out)), s |-> r.s]
\* impl_garble_tuple: (self.0.garble(garbler), self.1.garble(garbler), ...), the
\* operands of a tuple expression evaluated left to right.
GarbleTuple(g, v, s) ==
    LET r == GarbleIter(g, v.v, s, <<>>)
    IN IF r.s.st # "ok" THEN [out |-> Nil, s |-> r.s]
       ELSE [out |-> Val("tuple", r.out), s |-> r.s]

\* The leaves of an array as values of one integer type, and back.
Wrapped(t, q) == [i \in DOMAIN q |-> Val(t, q[i])]
Payloads(q) == [i \in DOMAIN q |-> q[i].v]

\* An Ipv4Addr rebuilt with its octets in the other byte order.
GarbleIpv4AddrSwapped(g, v, s) ==
    LET r == GarbleArray(g, Val("array", Wrapped("u8", v.v)), s)
    IN IF r.s.st # "ok" THEN [out |-> Nil, s |-> r.s]
       ELSE [out |-> Val("ipv4", Reverse(Payloads(r.out.v))), s |-> r.s]
\* impl Garble for Ipv4Addr: s.octets().garble(garbler), then Ipv4Addr::new.
GarbleIpv4Addr(g, v, s) ==
    LET r == GarbleArray(g, Val("array", Wrapped("u8", v.v)), s)
    IN IF r.s.st # "ok" THEN [out |-> Nil, s |-> r.s]
       ELSE [out |-> Val("ipv4", Payloads(r.out.v)), s |-> r.s]
\* impl Garble for Ipv6Addr: s.segments().garble(garbler), then Ipv6Addr::new.
GarbleIpv6Addr(g, v, s) ==
    LET r == GarbleArray(g, Val("array", Wrapped("u16", v.v)), s)
    IN IF r.s.st # "ok" THEN [out |-> Nil, s |-> r.s]
       ELSE [out |-> Val("ipv6", Payloads(r.out.v)), s |-> r.s]
\* impl Garble for IpAddr and for SocketAddr: the match on V4 / V6, the same
\* variant around the garbled address.
GarbleFamily(g, v, s) ==
    LET r == Garble(g, v.v.addr, s)
    IN IF r.s.st # "ok" THEN [out |-> Nil, s |-> r.s]
       ELSE [out |-> Val(v.t, [family |-> v.v.family, addr |-> r.out]), s |-> r.s]
\* impl Garble for SocketAddrV4: SocketAddrV4::new(s.ip().garble(garbler),
\* s.port().garble(garbler)); ip() is a reference, the arguments are evaluated
\* in order.
GarbleSocketAddrV4(g, v, s) ==
    LET ri == Garble(g, Val("ref", v.v.ip), s)
        rp == Garble(g, Val("u16", v.v.port), ri.s)
    IN IF ri.s.st # "ok" THEN [out |-> Nil, s |-> ri.s]
       ELSE IF rp.s.st # "ok" THEN [out |-> Nil, s |-> rp.s]
       ELSE [out |-> Val("socketaddrv4", [ip |-> ri.out, port |-> rp.out.v]), s |-> rp.s]
\* A SocketAddrV6 rebuilt without its metadata: SocketAddrV6::new(ip, port, 0, 0).
GarbleSocketAddrV6NoMeta(g, v, s) ==
    LET ri == Garble(g, Val("ref", v.v.ip), s)
        rp == Garble(g, Val("u16", v.v.port), ri.s)
    IN IF ri.s.st # "ok" THEN [out |-> Nil, s |-> ri.s]
       ELSE IF rp.s.st # "ok" THEN [out |-> Nil, s |-> rp.s]
       ELSE [out |-> Val("socketaddrv6", [ip |-> ri.out, port |-> rp.out.v,
                                          flowinfo |-> 0, scope_id |-> 0]),
             s |-> rp.s]
\* impl Garble for SocketAddrV6: SocketAddrV6::new(s.ip().garble(garbler),
\* s.port().garble(garbler), s.flowinfo(), s.scope_id()).
GarbleSocketAddrV6(g, v, s) ==
    LET ri == Garble(g, Val("ref", v.v.ip), s)
        rp == Garble(g, Val("u16", v.v.port), ri.s)
    IN IF ri.s.st # "ok" THEN [out |-> Nil, s |-> ri.s]
       ELSE IF rp.s.st # "ok" THEN [out |-> Nil, s |-> rp.s]
       ELSE [out |-> Val("socketaddrv6", [ip |-> ri.out, port |-> rp.out.v,
                                          flowinfo |-> v.v.flowinfo,
                                          scope_id |-> v.v.scope_id]),
             s |-> rp.s]

SetTypes == {"btreeset", "hashset"}
MapTypes == {"btreemap", "hashmap"}
HashTypes == {"hashset", "hashmap"}

RECURSIVE SortedElems(_)
\* The elements of a set in ascending order (Ord on the payload).
SortedElems(S) ==
    IF S = {} THEN <<>>
    ELSE LET m == CHOOSE x \in S : \A y \in S : x.v <= y.v
         IN <<m>> \o SortedElems(S \ {m})
RECURSIVE SortedEntries(_)
\* The entries of a map in ascending key order.
SortedEntries(M) ==
    IF M = {} THEN <<>>
    ELSE LET m == CHOOSE e \in M : \A f \in M : e.k.v <= f.k.v
         IN <<m>> \o SortedEntries(M \ {m})
\* A hashed container iterates in the order its hasher gives: seed lists the ranks.
Permuted(sorted, seed) ==
    LET Has(r) == r <= Len(sorted)
        ranks == SelectSeq(seed, Has)
    IN [i \in DOMAIN ranks |-> sorted[ranks[i]]]
\* Every set and map iterating in the order of the hasher, the BTree ones too.
IntoIterHashed(v, s) ==
    Permuted(IF v.t \in SetTypes THEN SortedElems(v.v) ELSE SortedEntries(v.v), s.seed)
\* into_iter() of a set or a map.
IntoIter(v, s) ==
    LET sorted == IF v.t \in SetTypes THEN SortedElems(v.v) ELSE SortedEntries(v.v)
    IN IF v.t \in HashTypes THEN Permuted(sorted, s.seed) ELSE sorted

\* collect() into a set: equal elements merge.
CollectSet(q) == Range(q)

\* impl_garble_set: s.into_iter().map(|v| v.garble(g)).collect().
GarbleSet(g, v, s) ==
    LET r == GarbleIter(g, IntoIter(v, s), s, <<>>)
    IN IF r.s.st # "ok" THEN [out |-> Nil, s |-> r.s]
       ELSE [out |-> Val(v.t, CollectSet(r.out)), s |-> r.s]

\* An insert that leaves an entry with an equal key as it is: entry(k).or_insert(x).
MapInsertFirst(M, e) == IF \E f \in M : f.k = e.k THEN M ELSE M \cup {e}
\* An insert that keeps the entry already there beside the new one.
MapInsertKeep(M, e) == M \cup {e}
\* map.insert(k, x): an entry with an equal key is replaced.
MapInsert(M, e) == {f \in M : f.k # e.k} \cup {e}
RECURSIVE CollectMap(_, _)
\* collect() into a map: the entries inserted in order.
CollectMap(q, M) == IF q = <<>> THEN M ELSE CollectMap(Tail(q), MapInsert(M, Head(q)))

RECURSIVE GarbleEntries(_, _, _, _)
RECURSIVE GarbleEntriesValueFirst(_, _, _, _)
\* The pair built value first: the value of an entry garbled before its key.
GarbleEntriesValueFirst(g, entries, s, acc) ==
    IF entries = <<>> THEN [out |-> acc, s |-> s]
    ELSE LET rx == Garble(g, Head(entries).x, s)
             rk == Garble(g, Head(entries).k, rx.s)
         IN IF rx.s.st # "ok" THEN [out |-> acc, s |-> rx.s]
            ELSE IF rk.s.st # "ok" THEN [out |-> acc, s |-> rk.s]
            ELSE GarbleEntriesValueFirst(g, Tail(entries), rk.s,
                                         Append(acc, [k |-> rk.out, x |-> rx.out]))
\* iter.map(|(k, v)| (k.garble(garbler), v.garble(garbler))): the key, then the value.
GarbleEntries(g, entries, s, acc) ==
    IF entries = <<>> THEN [out |-> acc, s |-> s]
    ELSE LET rk == Garble(g, Head(entries).k, s)
             rx == Garble(g, Head(entries).x, rk.s)
         IN IF rk.s.st # "ok" THEN [out |-> acc, s |-> rk.s]
            ELSE IF rx.s.st # "ok" THEN [out |-> acc, s |-> rx.s]
            ELSE GarbleEntries(g, Tail(entries), rx.s, Append(acc, [k |-> rk.out, x |-> rx.out]))

\* A map that garbles its keys and keeps its values as they are.
GarbleMapKeysOnly(g, v, s) ==
    LET entries == IntoIter(v, s)
        r == GarbleIter(g, [i \in DOMAIN entries |-> entries[i].k], s, <<>>)
    IN IF r.s.st # "ok" THEN [out |-> Nil, s |-> r.s]
       ELSE [out |-> Val(v.t, CollectMap([i \in DOMAIN entries |->
                                            [k |-> r.out[i], x |-> entries[i].x]], {})),
             s |-> r.s]
\* impl_garble_map.
GarbleMap(g, v, s) ==
    LET r == GarbleEntries(g, IntoIter(v, s), s, <<>>)
    IN IF r.s.st # "ok" THEN [out |-> Nil, s |-> r.s]
       ELSE [out |-> Val(v.t, CollectMap(r.out, {})), s |-> r.s]

\* A heap as the vector it lies in: the element at i is not less than its
\* children at 2i and 2i + 1.
IsHeap(q) == \A i \in DOMAIN q : i > 1 => q[i \div 2].v >= q[i].v
Swap(q, i, j) == [q EXCEPT ![i] = q[j], ![j] = q[i]]
RECURSIVE SiftDown(_, _)
\* sift_down: the element at i moves below its greater child (the right one of
\* two equal children) while it is less than it.
SiftDown(q, i) ==
    LET l == 2 * i
        r == 2 * i + 1
        c == IF r <= Len(q) /\ q[l].v <= q[r].v THEN r ELSE l
    IN IF l > Len(q) THEN q
       ELSE IF q[i].v >= q[c].v THEN q
       ELSE SiftDown(Swap(q, i, c), c)
RECURSIVE RebuildFrom(_, _)
RebuildFrom(q, n) == IF n = 0 THEN q ELSE RebuildFrom(SiftDown(q, n), n - 1)
\* A collect() that drops an element equal to one it holds, as a set does.
CollectHeapDedup(q) ==
    LET Fresh(i) == \A j \in 1..(i - 1) : q[j] # q[i]
        kept == SelectSeq([i \in DOMAIN q |-> i], Fresh)
        d == [i \in DOMAIN kept |-> q[kept[i]]]
    IN RebuildFrom(d, Len(d) \div 2)
\* collect() into a BinaryHeap: every element kept, the vector made a heap.
CollectHeap(q) == RebuildFrom(q, Len(q) \div 2)

\* impl_garble_set for BinaryHeap: into_iter() yields the heap's vector in its
\* order.
GarbleHeap(g, v, s) ==
    LET r == GarbleIter(g, v.v, s, <<>>)
    IN IF r.s.st # "ok" THEN [out |-> Nil, s |-> r.s]
       ELSE [out |-> Val("binaryheap", CollectHeap(r.out)), s |-> r.s]

\* impl Garble for (): the unit, the strategy unused.
GarbleUnit(g, v, s) == [out |-> Val("unit", <<>>), s |-> s]
\* impl Garble for PhantomData<T>: self, the strategy unused.
GarblePhantomData(g, v, s) == [out |-> v, s |-> s]

\* Garbler::garble(value): value.garble(self).
GarblerGarble(g, v, s) == Garble(g, v, s)

\* A derive that ignores the #[nogarble] attribute.
DeriveFieldAll(g, f, s) == GarblerGarble(g, f.v, s)
\* derive_garble, one binding: a #[nogarble] field is moved as it is, any other
\* goes through garbler.garble.
DeriveField(g, f, s) ==
    IF f.nogarble THEN [out |-> f.v, s |-> s] ELSE GarblerGarble(g, f.v, s)

RECURSIVE DeriveBodies(_, _, _, _)
\* derive_garble, the bindings of the matched variant in declaration order.
DeriveBodies(g, fields, s, acc) ==
    IF fields = <<>> THEN [out |-> acc, s |-> s]
    ELSE LET r == DeriveField(g, Head(fields), s)
         IN IF r.s.st # "ok" THEN [out |-> acc, s |-> r.s]
            ELSE DeriveBodies(g, Tail(fields), r.s,
                              Append(acc, [Head(fields) EXCEPT !.v = r.out]))

\* A derive that rebuilds with the type's name where the variant's is due.
GarbleDerivedTypeName(g, v, s) ==
    LET r == DeriveBodies(g, v.v.fields, s, <<>>)
        name == IF v.v.ctor = "MyEnum::V" THEN "MyEnum" ELSE v.v.ctor
    IN IF r.s.st # "ok" THEN [out |-> Nil, s |-> r.s]
       ELSE [out |-> Val("derived", [ctor |-> name, fields |-> r.out]), s |-> r.s]
\* The derived impl: match self { Ctor { fields } => Ctor { bodies } }.
GarbleDerived(g, v, s) ==
    LET r == DeriveBodies(g, v.v.fields, s, <<>>)
    IN IF r.s.st # "ok" THEN [out |-> Nil, s |-> r.s]
       ELSE [out |-> Val("derived", [ctor |-> v.v.ctor, fields |-> r.out]), s |-> r.s]

\* value.garble(garbler): the dispatch on the value's type.
Garble(g, v, s) ==
    CASE v.t \in PrimTypes -> GarblePrimitive(g, v, s)
      [] v.t = "nogarble" -> GarbleNoGarble(g, v, s)
      [] v.t = "nonzero" -> GarbleNonZero(g, v, s)
      [] v.t = "atomic" -> GarbleAtomic(g, v, s)
      [] v.t = "ref" -> GarbleRef(g, v, s)
      [] v.t = "cstring" -> GarbleCString(g, v, s)
      [] v.t = "option" -> GarbleOption(g, v, s)
      [] v.t \in {"ok", "err"} -> GarbleResult(g, v, s)
      [] v.t = "array" -> GarbleArray(g, v, s)
      [] v.t = "ipv4" -> GarbleIpv4Addr(g, v, s)
      [] v.t = "ipv6" -> GarbleIpv6Addr(g, v, s)
      [] v.t \in {"ipaddr", "socketaddr"} -> GarbleFamily(g, v, s)
      [] v.t = "socketaddrv4" -> GarbleSocketAddrV4(g, v, s)
      [] v.t = "socketaddrv6" -> GarbleSocketAddrV6(g, v, s)
      [] v.t = "tuple" -> GarbleTuple(g, v, s)
      [] v.t \in SeqTypes -> GarbleSequence(g, v, s)
      [] v.t \in SetTypes -> GarbleSet(g, v, s)
      [] v.t \in MapTypes -> GarbleMap(g, v, s)
      [] v.t = "binaryheap" -> GarbleHeap(g, v, s)
      [] v.t = "unit" -> GarbleUnit(g, v, s)
      [] v.t = "phantomdata" -> GarblePhantomData(g, v, s)
      [] v.t = "derived" -> GarbleDerived(g, v, s)

-----------------------------------------------------------------------------
(* The tape: one answer of the random number generator (or of an arbitrary *)
(* strategy) for each place a garble call may ask for one.                 *)

RECURSIVE AskTypes(_, _)
RECURSIVE AskTypesAll(_, _)
AskTypesAll(g, vs) ==
    IF vs = <<>> THEN <<>> ELSE AskTypes(g, Head(vs)) \o AskTypesAll(g, Tail(vs))
UnmarkedValues(fields) ==
    LET Unmarked(f) == ~f.nogarble
        fs == SelectSeq(fields, Unmarked)
    IN [i \in DOMAIN fs |-> fs[i].v]
EntryValues(es) ==
    [i \in 1..(2 * Len(es)) |-> IF i % 2 = 1 THEN es[(i + 1) \div 2].k ELSE es[i \div 2].x]
\* The types of the answers garbling v asks for, in the order of the asking: one
\* per leaf, and one per character where SimpleGarbler garbles a string.
AskTypes(g, v) ==
    CASE v.t \in StrTypes ->
            IF g.kind = "SimpleGarbler" THEN [i \in DOMAIN v.v |-> "char"] ELSE <<"str">>
      [] v.t \in PrimTypes \ StrTypes -> <<v.t>>
      [] v.t \in {"nogarble", "unit", "phantomdata"} -> <<>>
      [] v.t = "nonzero" -> <<v.v.p>>
      [] v.t = "atomic" -> <<v.v[1]>>
      [] v.t = "cstring" -> [i \in DOMAIN v.v |-> "u8"]
      [] v.t \in {"ref", "ok", "err"} -> AskTypes(g, v.v)
      [] v.t \in SeqTypes \cup {"option", "array", "tuple", "binaryheap"} -> AskTypesAll(g, v.v)
      [] v.t \in SetTypes -> AskTypesAll(g, SortedElems(v.v))
      [] v.t \in MapTypes -> AskTypesAll(g, EntryValues(SortedEntries(v.v)))
      [] v.t = "derived" -> AskTypesAll(g, UnmarkedValues(v.v.fields))
      [] v.t = "ipv4" -> [i \in DOMAIN v.v |-> "u8"]
      [] v.t = "ipv6" -> [i \in DOMAIN v.v |-> "u16"]
      [] v.t \in {"ipaddr", "socketaddr"} -> AskTypes(g, v.v.addr)
      [] v.t \in {"socketaddrv4", "socketaddrv6"} -> AskTypes(g, v.v.ip) \o <<"u16">>

\* The answers to one asking.  SimpleGarbler: the coin gen_bool compares with the
\* rate, and the draw that follows a low coin (a bool draws nothing; after a high
\* coin nothing is drawn at any rate up to 0.99, and one draw stands for all).
\* An arbitrary strategy: the value it returns.
TapeEntries(g, m) ==
    CASE g.kind = "SimpleGarbler" ->
            {[u |-> 0, i |-> i] : i \in IF m = "bool" THEN {1} ELSE DOMAIN GenSamples(m)}
                \cup {[u |-> 99, i |-> 1]}
      [] g.kind = "AnyGarbler" ->
            {[u |-> 0, i |-> i] : i \in DOMAIN Samples(IF m = "str" THEN "string" ELSE m)}
RECURSIVE TapesOver(_, _)
TapesOver(g, ms) ==
    IF ms = <<>> THEN {<<>>}
    ELSE {<<e>> \o q : e \in TapeEntries(g, Head(ms)), q \in TapesOver(g, Tail(ms))}
\* The addresses have up to nine leaves: their tapes give all but MaxHits of the
\* askings the plain answer (a high coin; the first sample of an arbitrary
\* strategy) and the others any answer.
AddrTypes == {"ipv4", "ipv6", "ipaddr", "socketaddrv4", "socketaddrv6", "socketaddr"}
MaxHits == 2
PlainAnswer(g) == IF g.kind = "SimpleGarbler" THEN [u |-> 99, i |-> 1] ELSE [u |-> 0, i |-> 1]
SparseTapes(g, ms) ==
    UNION {{[i \in DOMAIN ms |-> IF i \in H THEN f[i] ELSE PlainAnswer(g)] :
              f \in [H -> UNION {TapeEntries(g, ms[i]) : i \in H} \ {PlainAnswer(g)}]} :
           H \in {K \in SUBSET DOMAIN ms : Cardinality(K) <= MaxHits}}
\* PassGarbler and ZeroGarbler never ask; gen_bool panics before it draws when
\* the rate is out of range.
Tapes(g, v) ==
    IF g.kind = "AnyGarbler" \/ (g.kind = "SimpleGarbler" /\ g.rate <= 100)
    THEN IF v.t \in AddrTypes THEN SparseTapes(g, AskTypes(g, v))
         ELSE TapesOver(g, AskTypes(g, v))
    ELSE {<<>>}

Start(g, tape, seed) ==
    [calls |-> g.calls, rng |-> g.rng, tape |-> tape, seed |-> seed, st |-> "ok"]

RECURSIVE Perms(_)
\* Every order of the ranks in S.
Perms(S) == IF S = {} THEN {<<>>} ELSE UNION {{<<x>> \o q : q \in Perms(S \ {x})} : x \in S}
\* The orders a hashed container can iterate in; no order for another value.
Seeds(v) == IF v.t \in HashTypes THEN Perms(1..Cardinality(v.v)) ELSE {<<>>}

\* One root call value.garble(&mut garbler).
Call(v) ==
    /\ status = "ready"
    /\ \E tape \in Tapes(garbler, v), seed \in Seeds(v) :
          LET r == Garble(garbler, v, Start(garbler, tape, seed))
          IN /\ input' = v
             /\ output' = r.out
             /\ status' = IF r.s.st = "ok" THEN "done" ELSE r.s.st
             /\ garbler' = [garbler EXCEPT !.calls = r.s.calls, !.rng = r.s.rng]
             /\ hashSeed' = seed
             /\ answers' = tape
    /\ UNCHANGED overflowChecks

\* The hasher orders an equal value built again may get: a new RandomState for
\* whatever the process builds, which only the hashed containers iterate by.
ReplaySeeds(v) ==
    IF v.t \in SetTypes \cup MapTypes THEN Perms(1..Cardinality(v.v)) ELSE {<<>>}
\* The caller builds an equal strategy in the state the last one started in (the
\* same answers to come) and an equal input, and garbles again.
Replay ==
    /\ status = "done"
    /\ \E seed \in ReplaySeeds(input) :
          LET g == IF garbler.kind = "SimpleGarbler" THEN SimpleGarblerNew(garbler.rate)
                   ELSE OtherGarbler(garbler.kind)
              r == Garble(g, input, Start(g, answers, seed))
          IN /\ output' = r.out
             /\ status' = IF r.s.st = "ok" THEN "done" ELSE r.s.st
             /\ garbler' = [garbler EXCEPT !.calls = r.s.calls, !.rng = r.s.rng]
             /\ hashSeed' = seed
    /\ UNCHANGED <<input, answers, overflowChecks>>

\* The trait bound derive_garble hands to add_trait_bounds:
\* ::garble::Garble<Output = T>, with the name T written in it.
TraitBound == [trait |-> "::garble::Garble", output |-> "T"]
\* synstructure's referenced_ty_params of a binding: the type parameters of the
\* item that the field's type names.
ReferencedTyParams(item, field) == {field.ty} \cap Range(item.params)
\* add_trait_bounds(bound, where_clause, AddBounds::Generics): one predicate
\* `P: bound` for each type parameter a binding references, the bound cloned as
\* it was given.
AddTraitBounds(item, bound) ==
    {[ty |-> P, bound |-> bound] :
        P \in UNION {ReferencedTyParams(item, item.fields[i]) : i \in DOMAIN item.fields}}
\* derive_garble, the impl header: impl<params> ::garble::Garble for name<params>
\* where bounds { type Output = Self; ... }.
DeriveImpl(item) ==
    Val("impl", [name |-> item.name, generics |-> item.params,
                 where |-> AddTraitBounds(item, TraitBound), output |-> "Self"])
\* #[derive(Garble)] expands on an item.
Derive(item) ==
    /\ status = "ready"
    /\ input' = Val("item", item)
    /\ output' = DeriveImpl(item)
    /\ status' = "done"
    /\ UNCHANGED <<garbler, overflowChecks, hashSeed, answers>>

\* The caller drops the strategy and builds it again.
NewGarbler ==
    /\ status # "ready"
    /\ garbler' = IF garbler.kind = "SimpleGarbler" THEN SimpleGarblerNew(garbler.rate)
                  ELSE OtherGarbler(garbler.kind)
    /\ input' = Nil
    /\ output' = Nil
    /\ status' = "ready"
    /\ hashSeed' = <<>>
    /\ answers' = <<>>
    /\ UNCHANGED overflowChecks

Init ==
    /\ garbler \in Garblers
    /\ input = Nil
    /\ output = Nil
    /\ status = "ready"
    /\ hashSeed = <<>>
    /\ answers = <<>>
    /\ overflowChecks \in BOOLEAN

NoGarbles == {Val("nogarble", x) : x \in Leaves}

\* NonZeroU8, NonZeroU16, NonZeroI8 over the non-zero samples of their integer.
NonZeros ==
    UNION {{Val("nonzero", [p |-> p, n |-> n]) : n \in Range(Samples(p)) \ {0}} : p \in IntTypes}
\* C strings: bytes without a nul.
CStrings == {Val("cstring", b) : b \in SeqsUpTo(Range(Samples("u8")) \ {0}, MaxLen)}

\* The element values of the composites: a few leaves of two types.
Elems == {Val("u8", x) : x \in Range(Samples("u8"))}
Options == {Val("option", q) : q \in SeqsUpTo(Elems \cup {Val("string", <<97>>)}, 1)}
Results == {Val(t, x) : t \in {"ok", "err"}, x \in Elems \cup {Val("string", <<97>>)}}
Sequences == {Val(t, q) : t \in SeqTypes, q \in SeqsUpTo(Elems, MaxLen)}

Sets == {Val(t, S) : t \in SetTypes, S \in {T \in SUBSET Elems : Cardinality(T) <= MaxLen}}
\* Maps from u8 to bool: the entry of key 0 holds TRUE, any other FALSE.
MapKeys == {Val("u8", 0), Val("u8", 1), Val("u8", 255)}
MapEntry(k) == [k |-> k, x |-> Val("bool", k.v = 0)]
Maps ==
    {Val(t, {MapEntry(k) : k \in K}) :
        t \in MapTypes, K \in {T \in SUBSET MapKeys : Cardinality(T) <= MaxLen}}

\* Derived aggregates: a struct with named fields, one with positional fields and
\* the variants of an enum, each field marked #[nogarble] or not.
FieldValues == {Val("u16", 1), Val("u16", 2), Val("string", <<97>>)}
FieldIds(ctor, n) ==
    SubSeq(IF ctor = "Named" THEN <<"a", "b", "c", "d">> ELSE <<"0", "1", "2", "3">>, 1, n)
Ctors == {"Named", "Inline", "MyEnum::V"}
Deriveds ==
    UNION {{Val("derived",
                [ctor |-> c,
                 fields |-> [i \in DOMAIN vs |->
                               [id |-> FieldIds(c, Len(vs))[i], nogarble |-> ms[i], v |-> vs[i]]]]) :
              ms \in [DOMAIN vs -> BOOLEAN], c \in Ctors} :
           vs \in SeqsUpTo(FieldValues, MaxLen)}

\* Nested values: tuples of a leaf, a Vec and a tuple; arrays of leaves and of
\* tuples; a struct whose fields are a tuple and a leaf.
Children == {Val("u8", 1),
             Val("vec", <<Val("bool", TRUE), Val("bool", FALSE)>>),
             Val("tuple", <<Val("u8", 255), Val("bool", TRUE)>>)}
Tuples == {Val("tuple", q) : q \in SeqsUpTo(Children, MaxLen) \ {<<>>}}
Arrays ==
    {Val("array", q) : q \in SeqsUpTo({Val("u8", 1), Val("u8", 63)}, MaxLen)}
        \cup {Val("array", q) :
                q \in SeqsUpTo({Val("tuple", <<Val("bool", TRUE), Val("bool", FALSE)>>),
                                Val("tuple", <<Val("bool", FALSE), Val("bool", FALSE)>>)},
                               MaxLen)}
NestedDeriveds ==
    {Val("derived",
         [ctor |-> c,
          fields |-> <<[id |-> FieldIds(c, 2)[1], nogarble |-> ms[1],
                        v |-> Val("tuple", <<Val("u8", 255), Val("bool", TRUE)>>)],
                       [id |-> FieldIds(c, 2)[2], nogarble |-> ms[2], v |-> Val("u8", 1)]>>]) :
        ms \in [1..2 -> BOOLEAN], c \in Ctors}

\* Generic structs: distinct type parameters, one field of each parameter's type
\* (a parameter no field uses does not compile), with or without a u32 field.
TyParamNames == {"T", "U", "V"}
Items ==
    {[name |-> "MyStruct", params |-> ps,
      fields |-> [i \in DOMAIN ps |-> [id |-> FieldIds("Named", Len(ps))[i], ty |-> ps[i]]]
                    \o extra] :
        ps \in {q \in SeqsUpTo(TyParamNames, MaxLen) : \A i, j \in DOMAIN q : i # j => q[i] # q[j]},
        extra \in {<<>>, <<[id |-> "n", ty |-> "u32"]>>}}
DeriveItem == \E item \in Items : Derive(item)

\* Addresses: 127.0.0.1 and the all-ones address, ::1, two ports, and for V6 a
\* flowinfo and a scope id that are not zero.
Ipv4Addrs == {Val("ipv4", <<127, 0, 0, 1>>), Val("ipv4", <<255, 255, 255, 255>>)}
Ipv6Addrs == {Val("ipv6", <<0, 0, 0, 0, 0, 0, 0, 1>>)}
IpAddrs == {Val("ipaddr", [family |-> "V4", addr |-> a]) : a \in Ipv4Addrs}
              \cup {Val("ipaddr", [family |-> "V6", addr |-> a]) : a \in Ipv6Addrs}
SocketAddrV4s ==
    {Val("socketaddrv4", [ip |-> Val("ipv4", <<127, 0, 0, 1>>), port |-> 80]),
     Val("socketaddrv4", [ip |-> Val("ipv4", <<255, 255, 255, 255>>), port |-> 65535])}
SocketAddrV6s ==
    {Val("socketaddrv6", [ip |-> a, port |-> 65535, flowinfo |-> 3, scope_id |-> 7]) :
        a \in Ipv6Addrs}
SocketAddrs ==
    {Val("socketaddr", [family |-> "V4", addr |-> a]) : a \in SocketAddrV4s}
        \cup {Val("socketaddr", [family |-> "V6", addr |-> a]) : a \in SocketAddrV6s}
Addresses == Ipv4Addrs \cup Ipv6Addrs \cup IpAddrs
                \cup SocketAddrV4s \cup SocketAddrV6s \cup SocketAddrs
CallAddress == \E v \in Addresses : Call(v)

\* AtomicBool and the atomic integers over the samples of their primitive, each
\* the pair of the primitive's type and the value held.
Atomics ==
    UNION {{Val("atomic", <<p, x>>) : x \in Range(Samples(p))} : p \in IntTypes \cup {"bool"}}
\* References to a leaf and to a Vec.
Refs == {Val("ref", x) : x \in Elems \cup {Val("string", <<97>>),
                                             Val("vec", <<Val("u8", 1), Val("u8", 63)>>)}}
\* Vec<Option<u8>> and Option<Vec<u8>>.
Nestings ==
    {Val("vec", q) : q \in SeqsUpTo({Val("option", <<>>), Val("option", <<Val("u8", 1)>>)}, MaxLen)}
        \cup {Val("option", <<Val("vec", q)>>) : q \in SeqsUpTo({Val("u8", 1), Val("u8", 63)}, MaxLen)}
\* BinaryHeap<u8>: the vectors that are heaps, equal elements allowed.
Heaps == {Val("binaryheap", q) : q \in {r \in SeqsUpTo(Elems, MaxLen) : IsHeap(r)}}
\* The unit and a PhantomData<u8>.
Empties == {Val("unit", <<>>), Val("phantomdata", <<>>)}
CallHeap == \E v \in Heaps : Call(v)
CallEmpty == \E v \in Empties : Call(v)
CallAtomic == \E v \in Atomics : Call(v)
CallRef == \E v \in Refs : Call(v)
CallNesting == \E v \in Nestings : Call(v)

CallLeaf == \E v \in Leaves : Call(v)
CallNoGarble == \E v \in NoGarbles : Call(v)
CallNonZero == \E v \in NonZeros : Call(v)
CallCString == \E v \in CStrings : Call(v)
CallOption == \E v \in Options : Call(v)
CallResult == \E v \in Results : Call(v)
CallSequence == \E v \in Sequences : Call(v)
CallSet == \E v \in Sets : Call(v)
CallMap == \E v \in Maps : Call(v)
CallDerived == \E v \in Deriveds : Call(v)
CallTuple == \E v \in Tuples : Call(v)
CallArray == \E v \in Arrays : Call(v)
CallNestedDerived == \E v \in NestedDeriveds : Call(v)

\* The leaves and the wrappers of one leaf.
NextLeaf == CallLeaf \/ CallNoGarble \/ CallNonZero \/ CallCString \/ NewGarbler
SpecLeaf == Init /\ [][NextLeaf]_vars

\* Option, Result and the sequences.
NextShape == CallOption \/ CallResult \/ CallSequence \/ NewGarbler
SpecShape == Init /\ [][NextShape]_vars

\* The sets and the maps.
NextSet == CallSet \/ CallMap \/ NewGarbler
SpecSet == Init /\ [][NextSet]_vars

\* The binary heaps.
NextHeap == CallHeap \/ NewGarbler
SpecHeap == Init /\ [][NextHeap]_vars

\* The derived aggregates.
NextDerived == CallDerived \/ NewGarbler
SpecDerived == Init /\ [][NextDerived]_vars

\* The tuples, the arrays and the structs of nested values.
NextNested == CallTuple \/ CallArray \/ CallNestedDerived \/ NewGarbler
SpecNested == Init /\ [][NextNested]_vars

\* Calls that are made a second time from an equal start.
NextReplay ==
    \/ CallNonZero \/ CallTuple
    \/ CallSet
    \/ CallNestedDerived
    \/ Replay
    \/ NewGarbler
SpecReplay == Init /\ [][NextReplay]_vars

\* The derive macro expanding on generic items.
NextDerive == DeriveItem \/ NewGarbler
SpecDerive == Init /\ [][NextDerive]_vars

\* The IP and socket addresses.
NextAddress == CallAddress \/ NewGarbler
SpecAddress == Init /\ [][NextAddress]_vars

\* The leaves, their wrappers, the empty types and the collections.
NextVisits ==
    \/ CallLeaf \/ CallNoGarble \/ CallNonZero \/ CallCString
    \/ CallOption \/ CallSequence
    \/ CallSet \/ CallMap \/ CallHeap
    \/ CallEmpty \/ CallAtomic \/ CallRef \/ CallNesting
    \/ NewGarbler
SpecVisits == Init /\ [][NextVisits]_vars

\* Every kind of value.
NextAll ==
    \/ CallLeaf \/ CallNoGarble \/ CallNonZero \/ CallCString
    \/ CallOption \/ CallResult \/ CallSequence
    \/ CallSet \/ CallMap
    \/ CallDerived
    \/ CallTuple \/ CallArray \/ CallNestedDerived
    \/ CallAddress
    \/ CallAtomic \/ CallRef \/ CallNesting
    \/ CallHeap \/ CallEmpty
    \/ NewGarbler
SpecAll == Init /\ [][NextAll]_vars

\* Every kind of value, garbled by the tests' PassGarbler.
InitPass == Init /\ garbler = OtherGarbler("PassGarbler")
SpecPass == InitPass /\ [][NextAll]_vars

\* Every kind of value, garbled by SimpleGarbler::new(0.0).
InitRateZero == Init /\ garbler = SimpleGarblerNew(0)
SpecRateZero == InitRateZero /\ [][NextAll]_vars

-----------------------------------------------------------------------------
(* The claims.                                                              *)

\* What garbling returns when no leaf is perturbed: the value itself, owned (a
\* &str as a String, a NoGarble as its payload).
AsOwned(v) ==
    CASE v.t = "str" -> Val("string", v.v)
      [] v.t = "nogarble" -> v.v
      [] v.t = "ref" -> v.v
      [] OTHER -> v
Indices(q) == [i \in DOMAIN q |-> i]
Called == status # "ready"

\* C1: garbling NoGarble(v) returns exactly v with any strategy (SimpleGarbler at
\* rate 1.0 and at the out-of-range 100.0 included) and leaves the strategy as it
\* was: no method called, no random draw made.
C1_OptOutTransparent ==
    [][(status = "ready" /\ input'.t = "nogarble")
          => (status' = "done" /\ output' = input'.v /\ garbler' = garbler)]_vars
C1_Witness ==
    /\ status = "done" /\ input.t = "nogarble" /\ output = input.v
    /\ garbler.kind = "SimpleGarbler" /\ garbler.rate = 10000

\* C2: in a derived aggregate every #[nogarble] field of the output equals the
\* input's and never reaches the strategy, and every other field is what the
\* strategy returned for the input's field: the strategy is called once per
\* unmarked field, in order, with that field.
C2_NoGarbleFields ==
    (input.t = "derived" /\ status = "done") =>
        LET fin == input.v.fields
            fout == output.v.fields
            Unmarked(i) == ~fin[i].nogarble
            un == SelectSeq(Indices(fin), Unmarked)
        IN /\ output.t = "derived"
           /\ Len(fout) = Len(fin)
           /\ \A i \in DOMAIN fin : fin[i].nogarble => fout[i] = fin[i]
           /\ Len(garbler.calls) = Len(un)
           /\ \A j \in DOMAIN un :
                 /\ garbler.calls[j].m = MethodOf(fin[un[j]].v.t)
                 /\ garbler.calls[j].arg = fin[un[j]].v.v
                 /\ fout[un[j]].v = Val(fin[un[j]].v.t, garbler.calls[j].ret)
C2_Witness ==
    /\ status = "done" /\ input.t = "derived" /\ garbler.kind = "ZeroGarbler"
    /\ input.v.ctor = "Named"
    /\ input.v.fields = <<[id |-> "a", nogarble |-> FALSE, v |-> Val("u16", 1)],
                          [id |-> "b", nogarble |-> TRUE, v |-> Val("u16", 2)]>>
    /\ output.v.fields = <<[id |-> "a", nogarble |-> FALSE, v |-> Val("u16", 0)],
                           [id |-> "b", nogarble |-> TRUE, v |-> Val("u16", 2)]>>

\* C3: with SimpleGarbler::new(0.0) garbling returns its input, for every leaf,
\* composite and derived aggregate and whatever the generator answers.
C3_RateZeroIdentity ==
    (garbler.kind = "SimpleGarbler" /\ garbler.rate = 0 /\ Called) =>
        (status = "done" /\ output = AsOwned(input))
C3_Witness ==
    /\ status = "done" /\ garbler.kind = "SimpleGarbler" /\ garbler.rate = 0
    /\ input.t = "vec" /\ Len(input.v) >= 2
    /\ \A i \in DOMAIN answers : answers[i].u = 0
    /\ output = input

\* C4: with SimpleGarbler::new(1.0) every leaf garbles to a different value, a
\* bool to its negation, whatever the generator draws.
C4_RateOneAlwaysChanges ==
    (garbler.kind = "SimpleGarbler" /\ garbler.rate = 100 /\ Called /\ input.t \in PrimTypes) =>
        /\ status = "done"
        /\ output # AsOwned(input)
        /\ input.t = "bool" => output.v = ~input.v

\* n in the range of the integer type t, modulo 2^w.
Wrap(t, n) == MinOf(t) + ((n - MinOf(t)) % Pow2(Bits(t)))
\* C5: when SimpleGarbler perturbs an integer (it drew a value after the coin),
\* the call returns: the draw when it differs from the input, else input + 1
\* modulo 2^w; no overflow error.
C5_IntegerWraps ==
    (garbler.kind = "SimpleGarbler" /\ input.t \in IntTypes /\ Called /\ garbler.rng = 2) =>
        LET draw == Draw(GenSamples(input.t), answers[1].i)
        IN /\ status = "done"
           /\ output.v = IF draw = input.v THEN Wrap(input.t, input.v + 1) ELSE draw

\* C6: garbling a NonZero wrapper never fails in the construction and never
\* returns zero: the result is 1 when the strategy's integer method returned 0
\* for x.get(), else the value the method returned.
C6_NonZero ==
    (input.t = "nonzero" /\ Called) =>
        /\ status # "panic_unwrap"
        /\ status = "done" =>
              /\ output.t = "nonzero" /\ output.v.p = input.v.p
              /\ output.v.n # 0
              /\ Len(garbler.calls) = 1
              /\ garbler.calls[1].m = input.v.p
              /\ garbler.calls[1].arg = input.v.n
              /\ output.v.n = IF garbler.calls[1].ret = 0 THEN 1 ELSE garbler.calls[1].ret
C6_Witness ==
    /\ status = "done" /\ input.t = "nonzero"
    /\ garbler.calls[1].ret = 0 /\ output.v.n = 1 /\ input.v.n # 1

\* C7: garbling a CString never fails in the rebuild; the output has the input's
\* number of bytes, none of them nul, the i-th being what garble_u8 returned for
\* the i-th input byte, with 0x3F in place of a returned 0.
C7_CString ==
    (input.t = "cstring" /\ Called) =>
        /\ status # "panic_unwrap"
        /\ status = "done" =>
              /\ output.t = "cstring"
              /\ Len(output.v) = Len(input.v)
              /\ Len(garbler.calls) = Len(input.v)
              /\ \A i \in DOMAIN input.v :
                    /\ output.v[i] # 0
                    /\ garbler.calls[i].m = "u8"
                    /\ garbler.calls[i].arg = input.v[i]
                    /\ output.v[i] = IF garbler.calls[i].ret = 0 THEN QuestionMark
                                     ELSE garbler.calls[i].ret
C7_Witness ==
    /\ status = "done" /\ input.t = "cstring" /\ Len(input.v) >= 2
    /\ garbler.calls[1].ret = 0 /\ output.v[1] = QuestionMark
    /\ garbler.calls[2].ret # 0

\* C8: a Vec, VecDeque or LinkedList garbles to the same kind of sequence of the
\* same length; the strategy receives the elements in ascending index order and
\* the i-th output element is what it returned for the i-th input element.
C8_SequenceOrder ==
    (input.t \in SeqTypes /\ status = "done") =>
        /\ output.t = input.t
        /\ Len(output.v) = Len(input.v)
        /\ Len(garbler.calls) = Len(input.v)
        /\ \A i \in DOMAIN input.v :
              /\ garbler.calls[i].arg = input.v[i].v
              /\ output.v[i] = Val(input.v[i].t, garbler.calls[i].ret)
C8_Witness ==
    /\ status = "done" /\ input.t = "linkedlist" /\ garbler.kind = "AnyGarbler"
    /\ Len(input.v) >= 2 /\ input.v[1] # input.v[2]
    /\ output.v[1] # output.v[2] /\ output.v[1] # input.v[1]

\* The payloads of a set's elements or of a map's keys.
KeysOf(c) == IF c.t \in SetTypes THEN {e.v : e \in c.v} ELSE {e.k.v : e \in c.v}
\* The strategy's calls for the elements of a set or the keys of a map of u8.
KeyCalls == LET IsKey(c) == c.m = "u8" IN SelectSeq(garbler.calls, IsKey)
\* C9: a BTreeSet, HashSet, BTreeMap or HashMap garbles to at most as many
\* elements or entries as the input has, to fewer exactly when two garbled
\* elements or keys are equal, and every output element or key is what the
\* strategy returned for an input element or key.
C9_CardinalityBound ==
    (input.t \in SetTypes \cup MapTypes /\ status = "done") =>
        /\ output.t = input.t
        /\ Cardinality(output.v) <= Cardinality(input.v)
        /\ Len(KeyCalls) = Cardinality(input.v)
        /\ {KeyCalls[j].arg : j \in DOMAIN KeyCalls} = KeysOf(input)
        /\ Cardinality(output.v) < Cardinality(input.v)
              <=> \E i, j \in DOMAIN KeyCalls : i # j /\ KeyCalls[i].ret = KeyCalls[j].ret
        /\ KeysOf(output) \subseteq {KeyCalls[j].ret : j \in DOMAIN KeyCalls}
C9_Witness ==
    /\ status = "done" /\ input.t = "hashmap"
    /\ Cardinality(input.v) = 2 /\ Cardinality(output.v) = 1

\* C10: None garbles to None without a call to the strategy; Some(v), Ok(v) and
\* Err(e) garble to Some, Ok and Err of what the strategy returned for the
\* payload.
C10_OptionResultShape ==
    /\ (input = Val("option", <<>>) /\ Called) =>
          (status = "done" /\ output = input /\ garbler.calls = <<>> /\ garbler.rng = 0)
    /\ (input.t \in {"option", "ok", "err"} /\ input.v # <<>> /\ status = "done") =>
          LET vin == IF input.t = "option" THEN input.v[1] ELSE input.v
              vout == IF input.t = "option" THEN output.v[1] ELSE output.v
          IN /\ output.t = input.t
             /\ input.t = "option" => Len(output.v) = 1
             /\ Len(garbler.calls) = 1
             /\ garbler.calls[1].m = MethodOf(vin.t)
             /\ garbler.calls[1].arg = vin.v
             /\ vout = Val(vin.t, garbler.calls[1].ret)
C10_Witness ==
    /\ status = "done" /\ input.t = "err" /\ output.t = "err" /\ output.v # input.v

\* The number of fields up to the i-th that go to the strategy.
UnmarkedUpTo(fields, i) == Cardinality({j \in 1..i : ~fields[j].nogarble})
\* C11: a derived struct or enum garbles to the same constructor or variant with
\* each field at the name or position of the input field it came from; a
\* constructor without fields is returned as it is, without a strategy call.
C11_KeepsConstructor ==
    (input.t = "derived" /\ Called) =>
        /\ input.v.fields = <<>> =>
              (status = "done" /\ output = input /\ garbler.calls = <<>> /\ garbler.rng = 0)
        /\ status = "done" =>
              LET fin == input.v.fields
                  fout == output.v.fields
              IN /\ output.t = "derived"
                 /\ output.v.ctor = input.v.ctor
                 /\ DOMAIN fout = DOMAIN fin
                 /\ \A i \in DOMAIN fin :
                       /\ fout[i].id = fin[i].id
                       /\ fout[i].v.t = fin[i].v.t
                       /\ fout[i].v.v = IF fin[i].nogarble THEN fin[i].v.v
                                        ELSE garbler.calls[UnmarkedUpTo(fin, i)].ret
C11_Witness ==
    /\ status = "done" /\ garbler.kind = "ZeroGarbler"
    /\ input = Val("derived", [ctor |-> "MyEnum::V",
                                fields |-> <<[id |-> "0", nogarble |-> FALSE, v |-> Val("u16", 1)]>>])
    /\ output = Val("derived", [ctor |-> "MyEnum::V",
                                 fields |-> <<[id |-> "0", nogarble |-> FALSE, v |-> Val("u16", 0)]>>])

RECURSIVE LeafVisits(_)
RECURSIVE LeafVisitsAll(_)
LeafVisitsAll(vs) == IF vs = <<>> THEN <<>> ELSE LeafVisits(Head(vs)) \o LeafVisitsAll(Tail(vs))
\* The leaves of a value depth first, left to right, each with the method it
\* goes to; the #[nogarble] fields of a derived aggregate are not visited.
LeafVisits(v) ==
    CASE v.t \in PrimTypes -> <<[m |-> MethodOf(v.t), arg |-> v.v]>>
      [] v.t \in {"tuple", "array", "option"} \cup SeqTypes -> LeafVisitsAll(v.v)
      [] v.t = "derived" -> LeafVisitsAll(UnmarkedValues(v.v.fields))
      [] OTHER -> <<>>
\* C12: one root call logs, in one strategy, the leaves of a tuple, an array or
\* a derived aggregate depth first and left to right (position 0 upward, a
\* child's subtree before the next child); the calls made before a panic are a
\* prefix of that order, and the leaves of the output in the same order are
\* what the calls returned.
C12_TraversalOrder ==
    (input.t \in {"tuple", "array", "derived"} /\ Called) =>
        LET visits == LeafVisits(input)
        IN /\ Len(garbler.calls) <= Len(visits)
           /\ \A i \in DOMAIN garbler.calls :
                 IF garbler.calls[i].m = visits[i].m THEN garbler.calls[i].arg = visits[i].arg
                 ELSE FALSE
           /\ status = "done" =>
                 /\ Len(garbler.calls) = Len(visits)
                 /\ output.t = input.t
                 /\ Len(LeafVisits(output)) = Len(visits)
                 /\ \A i \in DOMAIN visits :
                       IF LeafVisits(output)[i].m = visits[i].m
                       THEN LeafVisits(output)[i].arg = garbler.calls[i].ret
                       ELSE FALSE
C12_Witness ==
    /\ status = "done" /\ garbler.kind = "AnyGarbler"
    /\ input = Val("tuple", <<Val("vec", <<Val("bool", TRUE), Val("bool", FALSE)>>),
                              Val("tuple", <<Val("u8", 255), Val("bool", TRUE)>>)>>)
    /\ Len(garbler.calls) = 4
    /\ garbler.calls[2].arg = FALSE /\ garbler.calls[3].arg = 255
    /\ output # input

\* C13: a BTreeMap or HashMap hands its entries to the strategy in the map's
\* iteration order (ascending keys for the BTreeMap, the hasher's order for the
\* HashMap), each entry as its key and then its value: the odd calls are the
\* keys, each even call is the value of the key just before it, and no entry is
\* visited twice.  A panic leaves a prefix of that order.
C13_KeyBeforeValue ==
    (input.t \in MapTypes /\ Called) =>
        LET calls == garbler.calls
            order == SortedEntries(input.v)
            KeyAt(i) == calls[2 * i - 1].arg
            nkeys == (Len(calls) + 1) \div 2
        IN /\ Len(calls) <= 2 * Cardinality(input.v)
           /\ status = "done" => Len(calls) = 2 * Cardinality(input.v)
           /\ \A i \in DOMAIN calls :
                 IF i % 2 = 1
                 THEN calls[i].m = "u8" /\ \E e \in input.v : e.k.v = calls[i].arg
                 ELSE calls[i].m = "bool"
                        /\ \E e \in input.v : e.k.v = calls[i - 1].arg /\ e.x.v = calls[i].arg
           /\ \A i, j \in 1..nkeys : i < j => KeyAt(i) # KeyAt(j)
           /\ input.t = "btreemap" => \A i, j \in 1..nkeys : i < j => KeyAt(i) < KeyAt(j)
           /\ input.t = "hashmap" => \A i \in 1..nkeys : KeyAt(i) = order[hashSeed[i]].k.v
C13_Witness ==
    /\ status = "done" /\ input.t = "hashmap" /\ Cardinality(input.v) = 2
    /\ hashSeed = <<2, 1>>
    /\ Len(garbler.calls) = 4
    /\ garbler.calls[1].arg = 255 /\ garbler.calls[2].m = "bool" /\ garbler.calls[3].arg = 0
    /\ garbler.calls[4].arg = TRUE

\* A step that garbles the last input again from an equal strategy state.
ReplayStep == status = "done" /\ status' # "ready"
C15_GenericBounds ==
    (input.t = "item" /\ status = "done") =>
        output.v.where = {[ty |-> P, bound |-> [trait |-> "::garble::Garble", output |-> P]] :
                            P \in Range(input.v.params)}

\* C16: SimpleGarbler::new takes any rate, and with any rate (100.0 included)
\* every leaf method returns a value of the leaf's type for every input, without
\* a panic.  Stated for the build without overflow checks, where the integer
\* closures cannot fail.
C16_SimpleGarblerTotal ==
    (garbler.kind = "SimpleGarbler" /\ input.t \in PrimTypes /\ Called /\ ~overflowChecks) =>
        /\ status = "done"
        /\ output.t = OutType(input.t)
        /\ Len(garbler.calls) = 1 /\ garbler.calls[1].ok

\* The socket address of a SocketAddrV4, SocketAddrV6 or SocketAddr value.
SocketOf(v) == IF v.t = "socketaddr" THEN v.v.addr ELSE v
\* The IP address of an Ipv4Addr, Ipv6Addr or IpAddr value.
IpOf(v) == IF v.t = "ipaddr" THEN v.v.addr ELSE v
SegmentType(ip) == IF ip.t = "ipv4" THEN "u8" ELSE "u16"
\* C17: a socket address garbles to the same kind of socket address built from
\* the garbled IP and the garbled port, the octets or segments of the address
\* going to the strategy before the port; flowinfo and scope_id of a V6 socket
\* address are those of the input; SocketAddr and IpAddr keep their family.
C17_SocketAddress ==
    /\ (input.t \in {"socketaddrv4", "socketaddrv6", "socketaddr"} /\ Called) =>
          LET sin == SocketOf(input)
              ip == sin.v.ip
              n == Len(ip.v)
              args == ip.v \o <<sin.v.port>>
              calls == garbler.calls
          IN /\ Len(calls) <= n + 1
             /\ \A i \in DOMAIN calls :
                   /\ calls[i].m = IF i <= n THEN SegmentType(ip) ELSE "u16"
                   /\ calls[i].arg = args[i]
             /\ status = "done" =>
                   LET sout == SocketOf(output)
                   IN /\ Len(calls) = n + 1
                      /\ output.t = input.t /\ sout.t = sin.t
                      /\ input.t = "socketaddr" => output.v.family = input.v.family
                      /\ sout.v.ip = Val(ip.t, [i \in 1..n |-> calls[i].ret])
                      /\ sout.v.port = calls[n + 1].ret
                      /\ sin.t = "socketaddrv6" =>
                            /\ sout.v.flowinfo = sin.v.flowinfo
                            /\ sout.v.scope_id = sin.v.scope_id
    /\ (input.t = "ipaddr" /\ status = "done") =>
          /\ output.t = "ipaddr" /\ output.v.family = input.v.family
          /\ output.v.addr = Val(input.v.addr.t,
                                  [i \in DOMAIN input.v.addr.v |-> garbler.calls[i].ret])
C17_Witness ==
    /\ status = "done" /\ input.t = "socketaddr" /\ input.v.family = "V6"
    /\ input.v.addr.v.flowinfo = 3 /\ output.v.addr.v.flowinfo = 3
    /\ output.v.addr.v.scope_id = 7
    /\ output.v.addr.v.ip # input.v.addr.v.ip
    /\ output.v.addr.v.port # input.v.addr.v.port

\* C18: with a strategy whose every method returns its argument, garbling
\* returns the input: the equal value for a leaf, a NonZero or atomic wrapper, a
\* tuple, an array, an address, a CString, an Option, a Result, a Vec and their
\* nestings, and the equal owned value for a &str or a &T.
C18_PassThrough ==
    (garbler.kind = "PassGarbler" /\ Called) =>
        /\ status = "done"
        /\ output = AsOwned(input)
        /\ \A i \in DOMAIN garbler.calls : garbler.calls[i].ret = garbler.calls[i].arg
C18_Witness ==
    /\ status = "done" /\ garbler.kind = "PassGarbler"
    /\ input = Val("ref", Val("vec", <<Val("u8", 1), Val("u8", 63)>>))
    /\ output = Val("vec", <<Val("u8", 1), Val("u8", 63)>>)
    /\ Len(garbler.calls) = 2

\* The characters SimpleGarbler decided to replace: a coin below the rate.
Perturbed(i) == answers[i].u < garbler.rate
\* C19: with a rate in [0, 1] SimpleGarbler garbles a string character by
\* character: the output has as many characters as the input, one decision is
\* drawn per character in order (and one scalar per replaced character), a
\* character that is not replaced stays at its position and a replaced one is the
\* scalar drawn; the empty string garbles to the empty string.
C19_StringPerChar ==
    (garbler.kind = "SimpleGarbler" /\ garbler.rate <= 100 /\ input.t \in StrTypes /\ Called) =>
        /\ status = "done"
        /\ output.t = "string"
        /\ Len(output.v) = Len(input.v)
        /\ Len(answers) = Len(input.v)
        /\ garbler.rng = Len(input.v) + Cardinality({i \in DOMAIN input.v : Perturbed(i)})
        /\ \A i \in DOMAIN input.v :
              /\ ~Perturbed(i) => output.v[i] = input.v[i]
              /\ Perturbed(i) => output.v[i] = Draw(GenSamples("char"), answers[i].i)
        /\ input.v = <<>> => output.v = <<>>
C19_Witness ==
    /\ status = "done" /\ garbler.kind = "SimpleGarbler" /\ garbler.rate = 50
    /\ input = Val("str", <<CharG, 97>>)
    /\ answers[1].u = 0 /\ answers[2].u = 99
    /\ output.v[1] # CharG /\ output.v[2] = 97

\* C20: when SimpleGarbler perturbs a char c and draws c itself, the result is
\* the scalar c + 1, or 'g' when c + 1 is not a scalar (c = U+D7FF, c =
\* U+10FFFF): always a scalar other than c, and the call returns.
C20_CharFallback ==
    (garbler.kind = "SimpleGarbler" /\ input.t = "char" /\ Called /\ garbler.rng = 2
        /\ Draw(GenSamples("char"), answers[1].i) = input.v) =>
        /\ status = "done"
        /\ output.v = IF input.v = SurrogateLo - 1 \/ input.v = CharMax THEN CharG
                      ELSE input.v + 1
        /\ output.v # input.v
        /\ output.v >= 0 /\ output.v <= CharMax
        /\ ~(output.v >= SurrogateLo /\ output.v <= SurrogateHi)
C20_Witness ==
    /\ status = "done" /\ garbler.kind = "SimpleGarbler" /\ garbler.rng = 2
    /\ input = Val("char", SurrogateLo - 1)
    /\ Draw(GenSamples("char"), answers[1].i) = SurrogateLo - 1
    /\ output = Val("char", CharG)

RECURSIVE VisitsOf(_)
RECURSIVE VisitsOfAll(_)
VisitsOfAll(vs) == IF vs = <<>> THEN <<>> ELSE VisitsOf(Head(vs)) \o VisitsOfAll(Tail(vs))
\* The leaves a value contains outside the opt-out wrappers (a NoGarble payload,
\* a #[nogarble] field), each with the method of its type: the integer under a
\* NonZero or an atomic, the bytes of a CString, the octets or segments of an IP
\* address and the port of a socket address, the elements of a collection, the
\* keys and values of a map.  The order is one the value fixes, not the order of
\* the calls.
VisitsOf(v) ==
    CASE v.t \in PrimTypes -> <<[m |-> MethodOf(v.t), arg |-> v.v]>>
      [] v.t \in {"nogarble", "unit", "phantomdata"} -> <<>>
      [] v.t = "nonzero" -> <<[m |-> v.v.p, arg |-> v.v.n]>>
      [] v.t = "atomic" -> <<[m |-> v.v[1], arg |-> v.v[2]]>>
      [] v.t = "cstring" -> [i \in DOMAIN v.v |-> [m |-> "u8", arg |-> v.v[i]]]
      [] v.t \in {"ref", "ok", "err"} -> VisitsOf(v.v)
      [] v.t \in SeqTypes \cup {"option", "array", "tuple", "binaryheap"} -> VisitsOfAll(v.v)
      [] v.t \in SetTypes -> VisitsOfAll(SortedElems(v.v))
      [] v.t \in MapTypes -> VisitsOfAll(EntryValues(SortedEntries(v.v)))
      [] v.t = "derived" -> VisitsOfAll(UnmarkedValues(v.v.fields))
      [] v.t = "ipv4" -> [i \in DOMAIN v.v |-> [m |-> "u8", arg |-> v.v[i]]]
      [] v.t = "ipv6" -> [i \in DOMAIN v.v |-> [m |-> "u16", arg |-> v.v[i]]]
      [] v.t \in {"ipaddr", "socketaddr"} -> VisitsOf(v.v.addr)
      [] v.t \in {"socketaddrv4", "socketaddrv6"} ->
            VisitsOf(v.v.ip) \o <<[m |-> "u16", arg |-> v.v.port]>>
\* How many entries of q name the method and the argument of e.
CountOf(q, e) == Cardinality({i \in DOMAIN q : q[i].m = e.m /\ q[i].arg = e.arg})
\* C21: a garble call that returns has made exactly one strategy call for each
\* leaf the input contains outside the opt-out wrappers (as many calls with a
\* method and an argument as there are such leaves), so none for None, an empty
\* collection, the unit, a PhantomData or a NoGarble payload, and one for every
\* element of a set and every key and value of a map even when the results
\* merge; a call that panics has made no call that is not one of these.
C21_OneCallPerLeaf ==
    (Called /\ input.t # "item") =>
        LET visits == VisitsOf(input)
            calls == garbler.calls
        IN /\ \A i \in DOMAIN calls : CountOf(calls, calls[i]) <= CountOf(visits, calls[i])
           /\ status = "done" => Len(calls) = Len(visits)
C21_Witness ==
    /\ status = "done" /\ input.t = "hashmap"
    /\ Cardinality(input.v) = 2 /\ Cardinality(output.v) = 1
    /\ Len(garbler.calls) = 4

\* The key and the value the strategy returned for the i-th entry of the map in
\* the order of its iteration (the key call, then the value call, entry by entry).
KeyRet(i) == garbler.calls[2 * i - 1].ret
ValueRet(i) == garbler.calls[2 * i].ret
\* C22: when garbling a BTreeMap or a HashMap returns, every garbled key is in
\* the output exactly once, and its value is the garbled value of the last
\* entry, in the order the input map iterated, whose key garbled to it; the
\* garbled value of an earlier entry with the same garbled key is dropped.
C22_LaterEntryWins ==
    (input.t \in MapTypes /\ status = "done") =>
        LET n == Cardinality(input.v)
            Last(k) == CHOOSE i \in 1..n : KeyRet(i) = k /\ \A j \in (i + 1)..n : KeyRet(j) # k
        IN /\ Len(garbler.calls) = 2 * n
           /\ output.t = input.t
           /\ {e.k.v : e \in output.v} = {KeyRet(i) : i \in 1..n}
           /\ \A e, f \in output.v : e.k = f.k => e = f
           /\ \A e \in output.v :
                 /\ e.k.t = "u8" /\ e.x.t = "bool"
                 /\ e.x.v = ValueRet(Last(e.k.v))
C22_Witness ==
    /\ status = "done" /\ input.t = "hashmap" /\ hashSeed = <<2, 1>>
    /\ Cardinality(input.v) = 2
    /\ KeyRet(1) = KeyRet(2) /\ ValueRet(1) # ValueRet(2)
    /\ output.v = {[k |-> Val("u8", KeyRet(2)), x |-> Val("bool", ValueRet(2))]}

\* C23: garbling a BinaryHeap that returns yields a heap with as many elements
\* as the input: one strategy call per element in the order of the heap's
\* vector, and the output holds what the calls returned, each as often as it was
\* returned, equal results included, laid out as a heap.
C23_HeapKeepsCount ==
    (input.t = "binaryheap" /\ status = "done") =>
        LET calls == garbler.calls
            Times(x) == Cardinality({i \in DOMAIN calls : calls[i].ret = x})
        IN /\ output.t = "binaryheap"
           /\ Len(output.v) = Len(input.v)
           /\ Len(calls) = Len(input.v)
           /\ \A i \in DOMAIN calls : calls[i].m = "u8" /\ calls[i].arg = input.v[i].v
           /\ \A i \in DOMAIN output.v :
                 /\ output.v[i].t = "u8"
                 /\ Cardinality({j \in DOMAIN output.v : output.v[j] = output.v[i]})
                        = Times(output.v[i].v)
           /\ IsHeap(output.v)
C23_Witness ==
    /\ status = "done" /\ input.t = "binaryheap"
    /\ Len(input.v) = 2 /\ input.v[1] # input.v[2]
    /\ Len(output.v) = 2 /\ output.v[1] = output.v[2]
    /\ garbler.kind = "SimpleGarbler"
====
